---- MODULE Spec2Model ----
(***************************************************************************)
(* catwalk: the MCP protocol gateway.                                      *)
(*                                                                         *)
(*  - backend/app/services/mcp_process_manager.py: the local process       *)
(*    bridge (ServerProcess, start_server, call_tool, stop_server,         *)
(*    stop_all_servers) and the child processes it talks to over           *)
(*    stdin/stdout;                                                        *)
(*  - backend/app/api/mcp_streamable.py: the Streamable HTTP endpoint      *)
(*    (authentication, protocol version, message classification,           *)
(*    dispatch, sessions, event channels, forwarding to a machine).        *)
(*                                                                         *)
(* Coroutines of the asyncio event loop are the tasks of the model; one    *)
(* action is one run of a coroutine between two suspension points.         *)
(***************************************************************************)
EXTENDS Integers, Sequences, FiniteSets, TLC

(* ------------------------------ bounds --------------------------------- *)

\* number of coroutines that call into the process manager concurrently
NumTasks == 2

\* number of child processes that may be spawned in one run
MaxProcs == 2

\* JSON-RPC message ids the callers draw from: 1..MaxMsgId
MaxMsgId == 2

\* number of call_tool invocations in one run
MaxCalls == 2

Tasks == 1..NumTasks
Pids == 1..MaxProcs
MsgIds == 1..MaxMsgId

\* deployment ids known to the callers of the process manager
Deployments == {"d1", "d2"}

\* Python's None, as a pid / task number
None == 0

\* JSON-RPC "Internal error"
INTERNAL_ERROR == -32603

VARIABLES
    IS_WINDOWS,        \* sys.platform == "win32"
    _running_servers,  \* deployment id -> pid of the registered ServerProcess, or None
    proc,              \* pid -> the child process behind a ServerProcess
    nprocs,            \* number of child processes spawned so far
    lock,              \* pid -> ServerProcess.lock (asyncio.Lock)
    ncalls,            \* number of call_tool invocations so far
    task,              \* task -> the process-manager call it is executing
    FLY_API_TOKEN,     \* settings.FLY_API_TOKEN is set
    active_sessions,   \* session id -> session, or NoSession
    http,              \* task -> the HTTP exchange its request handler is serving
    nreq               \* number of HTTP requests received so far

gwvars == <<FLY_API_TOKEN, active_sessions, http, nreq>>
pmvars == <<IS_WINDOWS, _running_servers, proc, nprocs, lock, ncalls, task>>
vars == <<IS_WINDOWS, _running_servers, proc, nprocs, lock, ncalls, task, gwvars>>

(* -------------------------- ServerProcess ------------------------------ *)

\* ServerProcess.__init__: no process yet, a fresh unlocked asyncio.Lock
NoProc == [dep |-> "", status |-> "unused", mode |-> "any", stdin |-> <<>>, stdout |-> <<>>,
           signals |-> <<>>]
NewLock == [holder |-> None, waiters |-> <<>>]

\* the state of a coroutine that is not inside the process manager
NoResult == [kind |-> "none", id |-> 0, code |-> 0, why |-> ""]
Idle == [op |-> "idle", pc |-> "idle", d |-> "", p |-> None, id |-> 0, res |-> NoResult,
         todo |-> <<>>]

\* an error dict that does not say which request failed
InternalError_NoId(msg_id, why) ==
    [kind |-> "error", id |-> None, code |-> INTERNAL_ERROR, why |-> why]

\* the dict returned at mcp_process_manager.py:160-167
InternalError(msg_id, why) ==
    [kind |-> "error", id |-> msg_id, code |-> INTERNAL_ERROR, why |-> why]

\* one lock for all the servers: that of the first
LockOf_Global(p) == CHOOSE q \in Pids : \A r \in Pids : q <= r

\* "self.lock = asyncio.Lock()" in __init__: each ServerProcess has its own
LockOf(p) == p

\* a lock whose acquire never waits
LockAvailable_NoWait(l) == TRUE

\* asyncio.Lock.acquire, fast path: free and nobody queued
LockAvailable(l) == l.holder = None /\ l.waiters = <<>>

\* a release that leaves the lock held
Release_Leak(l) == l

\* asyncio.Lock.release (the exit of "async with self.lock")
Release(l) == [l EXCEPT !.holder = None]

\* start_server without its membership test
AlreadyRunning_NoCheck(d) == FALSE

\* "if deployment_id in _running_servers"
AlreadyRunning(d) == _running_servers[d] # None

\* ServerProcess.start succeeded: the child exists and start_server registers it
SpawnAndRegister(t, d) ==
    /\ nprocs < MaxProcs
    /\ nprocs' = nprocs + 1
    /\ proc' = [proc EXCEPT ![nprocs + 1] = [NoProc EXCEPT !.dep = d, !.status = "running"]]
    /\ _running_servers' = [_running_servers EXCEPT ![d] = nprocs + 1]
    /\ task' = [task EXCEPT ![t] = [Idle EXCEPT !.op = "start_server", !.pc = "done",
                    !.d = d, !.p = nprocs + 1,
                    !.res = [NoResult EXCEPT !.kind = "true", !.why = "started"]]]
    /\ UNCHANGED <<gwvars, ncalls, IS_WINDOWS, lock>>

\* ServerProcess.start raised (command not found, fork failure): returns False
SpawnFails(t, d) ==
    /\ task' = [task EXCEPT ![t] = [Idle EXCEPT !.op = "start_server", !.pc = "done",
                    !.d = d,
                    !.res = [NoResult EXCEPT !.kind = "false", !.why = "spawn_failed"]]]
    /\ UNCHANGED <<gwvars, ncalls, IS_WINDOWS, _running_servers, proc, nprocs, lock>>

\* start_server up to its first suspension point.  subprocess.Popen does not
\* suspend, so on Windows the whole function is one step.
StartServerBegin(t, d, w) ==
    /\ task[t].op = "idle"
    /\ http[t].pc = "idle"
    /\ IF AlreadyRunning(d)
         THEN /\ task' = [task EXCEPT ![t] = [Idle EXCEPT !.op = "start_server",
                             !.pc = "done", !.d = d, !.p = _running_servers[d],
                             !.res = [NoResult EXCEPT !.kind = "true", !.why = "already_running"]]]
              /\ UNCHANGED <<gwvars, ncalls, IS_WINDOWS, _running_servers, proc, nprocs, lock>>
         ELSE IF w
           THEN SpawnAndRegister(t, d) \/ SpawnFails(t, d)
           ELSE /\ task' = [task EXCEPT ![t] = [Idle EXCEPT !.op = "start_server",
                               !.pc = "spawning", !.d = d]]
                /\ UNCHANGED <<gwvars, ncalls, IS_WINDOWS, _running_servers, proc, nprocs, lock>>

\* start_server resumed after "await asyncio.create_subprocess_exec"
StartServerFinish(t) ==
    /\ task[t].op = "start_server"
    /\ task[t].pc = "spawning"
    /\ SpawnAndRegister(t, task[t].d) \/ SpawnFails(t, task[t].d)

(* ------------------------- stop, stop_server --------------------------- *)

\* a pop that leaves the entry in the registry
Pop_Keep(d) == _running_servers

\* "_running_servers.pop(deployment_id, None)"
Pop(d) == [_running_servers EXCEPT ![d] = None]

\* "_running_servers.clear()"
Cleared == [d \in Deployments |-> None]

\* "list(_running_servers.items())": the registered servers, in the order of
\* the dict; the model does not record that order and takes every one
Snapshots ==
    LET S == {_running_servers[d] : d \in {e \in Deployments : _running_servers[e] # None}}
    IN  {sq \in [1..Cardinality(S) -> S] : \A i, j \in 1..Cardinality(S) : sq[i] = sq[j] => i = j}

RECURSIVE DropExited(_)
\* ServerProcess.stop on a child that has exited does not suspend: terminate()
\* raises ProcessLookupError, caught at line 237, or wait() returns at once
DropExited(todo) ==
    IF todo = <<>> \/ proc[Head(todo)].status = "running" THEN todo
    ELSE DropExited(Tail(todo))

\* the caller of stop continues after the last stop: stop_all_servers clears
\* the registry, stop_server returns
StopsDone(t, op, d, p, reg) ==
    /\ task' = [task EXCEPT ![t] = [Idle EXCEPT !.op = op, !.pc = "done", !.d = d, !.p = p]]
    /\ _running_servers' = IF op = "stop_all_servers" THEN Cleared ELSE reg

\* "await server.stop()" for the servers of todo, one after the other, up to
\* the next suspension point.  reg is the registry the caller leaves behind.
\* Windows: terminate(), wait(timeout=5.0), kill() and wait() all block, so
\* every stop is over within the step; K are the children that outlived the
\* grace period.  Unix: terminate() and suspend in asyncio.wait_for.
StopRun(t, op, d, p, todo, reg) ==
    LET rest == DropExited(todo) IN
    IF rest = <<>>
      THEN /\ proc' = proc
           /\ StopsDone(t, op, d, p, reg)
    ELSE IF IS_WINDOWS
      THEN LET live == {q \in Pids : proc[q].status = "running"
                                     /\ \E i \in 1..Len(rest) : rest[i] = q}
           IN  /\ \E K \in SUBSET live :
                    proc' = [q \in Pids |->
                               IF q \in live
                                 THEN [proc[q] EXCEPT !.status = "exited", !.stdin = <<>>,
                                         !.signals = IF q \in K THEN <<"term", "kill">>
                                                     ELSE <<"term">>]
                                 ELSE proc[q]]
               /\ StopsDone(t, op, d, p, reg)
      ELSE /\ proc' = [proc EXCEPT ![Head(rest)].signals = Append(@, "term")]
           /\ task' = [task EXCEPT ![t] = [Idle EXCEPT !.op = op, !.pc = "stop_wait",
                           !.d = d, !.p = Head(rest), !.todo = rest]]
           /\ _running_servers' = reg

\* stop_server up to its first suspension point
StopServerBegin(t, d) ==
    /\ task[t].op = "idle"
    /\ http[t].pc = "idle"
    /\ LET p == _running_servers[d] IN
         IF p = None
           THEN /\ proc' = proc
                /\ StopsDone(t, "stop_server", d, None, Pop(d))
           ELSE StopRun(t, "stop_server", d, p, <<p>>, Pop(d))
    /\ UNCHANGED <<gwvars, ncalls, IS_WINDOWS, nprocs, lock>>

\* stop_all_servers up to its first suspension point
StopAllBegin(t) ==
    /\ task[t].op = "idle"
    /\ http[t].pc = "idle"
    /\ \E todo \in Snapshots :
         StopRun(t, "stop_all_servers", "", None, todo, _running_servers)
    /\ UNCHANGED <<gwvars, ncalls, IS_WINDOWS, nprocs, lock>>

\* "await asyncio.wait_for(self.process.wait(), timeout=5.0)" returned: the
\* child has exited; stop returns and its caller goes on
StopWaitReturns(t) ==
    /\ task[t].pc = "stop_wait"
    /\ proc[task[t].p].status = "exited"
    /\ StopRun(t, task[t].op, task[t].d, task[t].p, Tail(task[t].todo), _running_servers)
    /\ UNCHANGED <<gwvars, ncalls, IS_WINDOWS, nprocs, lock>>

\* asyncio.TimeoutError after 5 s: kill() and "await self.process.wait()"
StopGraceExpired(t) ==
    /\ task[t].pc = "stop_wait"
    /\ proc[task[t].p].status = "running"
    /\ proc' = [proc EXCEPT ![task[t].p].signals = Append(@, "kill")]
    /\ task' = [task EXCEPT ![t].pc = "stop_kill_wait"]
    /\ UNCHANGED <<gwvars, ncalls, IS_WINDOWS, _running_servers, nprocs, lock>>

\* "await self.process.wait()" after kill() returned
StopKillReturns(t) ==
    /\ task[t].pc = "stop_kill_wait"
    /\ proc[task[t].p].status = "exited"
    /\ StopRun(t, task[t].op, task[t].d, task[t].p, Tail(task[t].todo), _running_servers)
    /\ UNCHANGED <<gwvars, ncalls, IS_WINDOWS, nprocs, lock>>

(* ------------------------------ call_tool ------------------------------ *)

\* the lock is taken: build the request line and write it to the child's stdin
SendRequest(t, d, p, msg_id) ==
    IF proc[p].status = "running"
      THEN /\ proc' = [proc EXCEPT ![p].stdin = Append(@, msg_id)]
           /\ lock' = [lock EXCEPT ![LockOf(p)] = [holder |-> t, waiters |-> IF @.waiters # <<>> /\ Head(@.waiters) = t THEN Tail(@.waiters) ELSE @.waiters]]
           /\ task' = [task EXCEPT ![t] = [Idle EXCEPT !.op = "call_tool", !.pc = "reading",
                           !.d = d, !.p = p, !.id = msg_id]]
      ELSE \* the pipe is closed: write/drain/flush raises, caught at line 158
           /\ proc' = proc
           /\ lock' = [lock EXCEPT ![LockOf(p)] = Release([holder |-> t, waiters |-> IF @.waiters # <<>> /\ Head(@.waiters) = t THEN Tail(@.waiters) ELSE @.waiters])]
           /\ task' = [task EXCEPT ![t] = [Idle EXCEPT !.op = "call_tool", !.pc = "done",
                           !.d = d, !.p = p, !.id = msg_id,
                           !.res = InternalError(msg_id, "broken_pipe")]]

\* server.call_tool(...) on the registered ServerProcess of d, up to the first
\* suspension: the lock is taken at once or the caller queues on it
EnterCallTool(t, d, msg_id) ==
    /\ ncalls < MaxCalls
    /\ ncalls' = ncalls + 1
    /\ LET p == _running_servers[d] IN
         IF LockAvailable(lock[LockOf(p)])
           THEN SendRequest(t, d, p, msg_id)
           ELSE /\ lock' = [lock EXCEPT ![LockOf(p)].waiters = Append(@, t)]
                /\ task' = [task EXCEPT ![t] = [Idle EXCEPT !.op = "call_tool",
                                !.pc = "waiting", !.d = d, !.p = p, !.id = msg_id]]
                /\ proc' = proc

\* a direct caller: get_server(d) followed by server.call_tool(...)
CallToolBegin(t, d, msg_id) ==
    /\ task[t].op = "idle"
    /\ http[t].pc = "idle"
    /\ AlreadyRunning(d)
    /\ EnterCallTool(t, d, msg_id)
    /\ UNCHANGED <<gwvars, IS_WINDOWS, _running_servers, nprocs>>

\* asyncio.Lock.acquire, slow path: release() woke the first waiter
CallToolLocked(t) ==
    /\ task[t].op = "call_tool"
    /\ task[t].pc = "waiting"
    /\ LET p == task[t].p IN
         /\ lock[LockOf(p)].holder = None
         /\ Head(lock[LockOf(p)].waiters) = t
         /\ SendRequest(t, task[t].d, p, task[t].id)
    /\ UNCHANGED <<gwvars, ncalls, IS_WINDOWS, _running_servers, nprocs>>

\* readline() returned a line: json.loads it
CallToolRead(t) ==
    /\ task[t].op = "call_tool"
    /\ task[t].pc = "reading"
    /\ LET p == task[t].p IN
         /\ proc[p].stdout # <<>>
         /\ LET line == Head(proc[p].stdout) IN
              /\ proc' = [proc EXCEPT ![p].stdout = Tail(@)]
              /\ task' = [task EXCEPT ![t].pc = "done",
                              ![t].res = IF line.kind = "valid"
                                           THEN [kind |-> "response", id |-> line.id,
                                                 code |-> 0, why |-> "response"]
                                           ELSE InternalError(task[t].id, "malformed")]
         /\ lock' = [lock EXCEPT ![LockOf(p)] = Release(@)]
    /\ UNCHANGED <<gwvars, ncalls, IS_WINDOWS, _running_servers, nprocs>>

\* readline() returned b"": RuntimeError("MCP server closed stdout")
CallToolEof(t) ==
    /\ task[t].op = "call_tool"
    /\ task[t].pc = "reading"
    /\ LET p == task[t].p IN
         /\ proc[p].stdout = <<>>
         /\ proc[p].status = "exited"
         /\ task' = [task EXCEPT ![t].pc = "done",
                         ![t].res = InternalError(task[t].id, "closed")]
         /\ lock' = [lock EXCEPT ![LockOf(p)] = Release(@)]
    /\ UNCHANGED <<gwvars, ncalls, IS_WINDOWS, _running_servers, proc, nprocs>>

\* asyncio.wait_for(..., timeout=30.0) expired; only _call_tool_unix has it
CallToolTimeout(t, w) ==
    /\ ~w
    /\ task[t].op = "call_tool"
    /\ task[t].pc = "reading"
    /\ LET p == task[t].p IN
         /\ proc[p].stdout = <<>>
         /\ proc[p].status = "running"
         /\ task' = [task EXCEPT ![t].pc = "done",
                         ![t].res = InternalError(task[t].id, "timeout")]
         /\ lock' = [lock EXCEPT ![LockOf(p)] = Release(@)]
    /\ UNCHANGED <<gwvars, ncalls, IS_WINDOWS, _running_servers, proc, nprocs>>

\* the caller takes the return value; the coroutine ends
TaskReturn(t) ==
    /\ task[t].pc = "done"
    /\ http[t].pc = "idle"
    /\ task' = [task EXCEPT ![t] = Idle]
    /\ UNCHANGED <<gwvars, ncalls, IS_WINDOWS, _running_servers, proc, nprocs, lock>>

(* --------------------------- child process ----------------------------- *)

\* What the program run by the child does with a request: "any" is an arbitrary
\* program; the others answer every request the same way.
Modes == {"valid", "malformed", "close", "never"}

\* the child answers the oldest request it has read with one line
BackendRespond(p, kind) ==
    /\ proc[p].status = "running"
    /\ proc[p].mode \in {"any", kind}
    /\ proc[p].stdin # <<>>
    /\ proc' = [proc EXCEPT ![p].stdin = Tail(@),
                            ![p].stdout = Append(@, [id |-> IF kind = "valid" THEN Head(proc[p].stdin) ELSE 0, kind |-> kind])]
    /\ UNCHANGED <<gwvars, ncalls, IS_WINDOWS, _running_servers, nprocs, lock, task>>

\* the child reads a request and never answers it
BackendIgnore(p) ==
    /\ proc[p].status = "running"
    /\ proc[p].mode \in {"any", "never"}
    /\ proc[p].stdin # <<>>
    /\ proc' = [proc EXCEPT ![p].stdin = Tail(@)]
    /\ UNCHANGED <<gwvars, ncalls, IS_WINDOWS, _running_servers, nprocs, lock, task>>

\* the child exits or crashes: its pipes close
BackendExit(p) ==
    /\ proc[p].status = "running"
    /\ proc[p].mode = "any" \/ (proc[p].mode = "close" /\ proc[p].stdin # <<>>)
    /\ proc' = [proc EXCEPT ![p].status = "exited", ![p].stdin = <<>>]
    /\ UNCHANGED <<gwvars, ncalls, IS_WINDOWS, _running_servers, nprocs, lock, task>>

\* SIGKILL ends the child
BackendKilled(p) ==
    /\ proc[p].status = "running"
    /\ \E i \in 1..Len(proc[p].signals) : proc[p].signals[i] = "kill"
    /\ proc' = [proc EXCEPT ![p].status = "exited", ![p].stdin = <<>>]
    /\ UNCHANGED <<gwvars, ncalls, IS_WINDOWS, _running_servers, nprocs, lock, task>>

(* ------------------------ deployment directory -------------------------- *)

\* an absent header / an absent "method" key
NoHeader == "<none>"
NoMethod == "<none>"

SUPPORTED_PROTOCOL_VERSIONS == <<"2025-06-18", "2025-03-26", "2024-11-05">>
DEFAULT_PROTOCOL_VERSION == "2025-06-18"

\* "protocol_version in SUPPORTED_PROTOCOL_VERSIONS"
Supported(v) == \E i \in DOMAIN SUPPORTED_PROTOCOL_VERSIONS : SUPPORTED_PROTOCOL_VERSIONS[i] = v

\* The deployments table: d1 runs as a local child process (no machine_id),
\* d2 on a Fly machine.  Strings that the code takes apart are sequences of
\* pieces; <<>> is None or the empty string.
\* tools, resources and prompts are the lists of schedule_config["mcp_config"].
Directory ==
    [d1 |-> [machine_id |-> "", access_token |-> <<"tok1">>, tools |-> <<"toolA">>,
             resources |-> <<"resA">>, prompts |-> <<>>],
     d2 |-> [machine_id |-> "m2", access_token |-> <<"tok2">>, tools |-> <<>>,
             resources |-> <<>>, prompts |-> <<"promptB">>]]

\* _get_deployment(db, deployment_id) found a row
Exists(deployment_id) == deployment_id \in DOMAIN Directory

(* ------------------------------ requests -------------------------------- *)

\* number of HTTP requests the gateway receives in one run
MaxRequests == 1

\* session ids uuid4 may produce in one run: 1..MaxSessions
MaxSessions == 1
SessionIds == 1..MaxSessions

\* "non-ascii" stands for a credential with a character above U+007F
NonAscii == {"non-ascii"}

PathIds == {"d1", "d2", "dX"}
\* the "token" query parameter and the Authorization header of a request
Credentials ==
    {[token |-> <<>>,            authorization |-> <<>>],
     [token |-> <<"tok1">>,      authorization |-> <<>>],
     [token |-> <<"tok2">>,      authorization |-> <<>>],
     [token |-> <<"non-ascii">>, authorization |-> <<>>],
     [token |-> <<>>,            authorization |-> <<"Bearer ", "tok1">>],
     [token |-> <<>>,            authorization |-> <<"tok2">>],
     [token |-> <<"tok2">>,      authorization |-> <<"Bearer ", "tok1">>]}
VersionHeaders == {NoHeader, "", "2025-06-18", "2025-03-26", "2024-11-05", "1999-01-01"}

\* what FastAPI hands to handle_mcp_endpoint: path, method, query and headers
Requests ==
    {[verb |-> v, deployment_id |-> d, token |-> c.token,
      authorization |-> c.authorization, version |-> pv, session |-> sid] :
        v \in {"GET", "POST"}, d \in PathIds, c \in Credentials,
        pv \in VersionHeaders, sid \in {None} \cup SessionIds}

NoRequest ==
    [verb |-> "", deployment_id |-> "", token |-> <<>>, authorization |-> <<>>,
     version |-> NoHeader, session |-> None]

Methods ==
    {"initialize", "tools/list", "tools/call", "ping", "resources/list",
     "prompts/list", "foo/bar"}

\* the request body: not JSON, JSON that is not an object, or a JSON object
\* with or without "id", "method" and "result"/"error"
Unread == [shape |-> "unread", id |-> None, method |-> NoMethod, has_result |-> FALSE]
Bodies ==
    {[Unread EXCEPT !.shape = "invalid_json"], [Unread EXCEPT !.shape = "not_object"]}
    \cup [shape : {"object"}, id : {None} \cup MsgIds,
          method : Methods \cup {NoMethod}, has_result : BOOLEAN]

\* the bodies sent to the gateway under SpecGateway: one of each class
GatewayBodies ==
    {b \in Bodies :
        \/ b.shape # "object"
        \/ b.id = None /\ b.method \in {NoMethod, "ping"}
        \/ b.id = 1 /\ b.method \in {NoMethod, "ping"}
        \/ b.id = 1 /\ ~b.has_result /\ b.method \in {"initialize", "tools/list", "foo/bar"}
        \/ b.id # None /\ ~b.has_result /\ b.method = "tools/call"}

(* ------------------------------ responses ------------------------------- *)

NoResp ==
    [status |-> 0, kind |-> "none", code |-> 0, id |-> None, msg |-> <<>>,
     version |-> NoHeader, sid |-> None, pv |-> "", list |-> <<>>]

\* JSONResponse(status_code, content=_jsonrpc_error(msg_id, code, message), headers)
JsonRpcError(status, msg_id, code, message, version) ==
    [NoResp EXCEPT !.status = status, !.kind = "jsonrpc_error", !.code = code,
                   !.id = msg_id, !.msg = message, !.version = version]

\* a 200 JSONResponse carrying {"jsonrpc", "id", "result"}
JsonRpcResult(msg_id, version) ==
    [NoResp EXCEPT !.status = 200, !.kind = "jsonrpc_result", !.id = msg_id,
                   !.version = version]

\* an exception left the handler: the framework answers 500 with a plain body
ServerError == [NoResp EXCEPT !.status = 500, !.kind = "server_error"]

\* what a request has done outside the gateway so far
NoFx == [called |-> FALSE, outbound |-> <<>>, created |-> None]

NoSession == [deployment_id |-> "", protocol_version |-> "", initialized |-> FALSE]

\* what the network did to a forwarded call: the first delivery and the
\* Machines API's record of the machine
NoNet == [first |-> "", info |-> ""]

\* the event channel of a GET: the number of SSE comments event_generator has
\* yielded (the first is "connection-established", the others "keep-alive")
\* and how the generator ended
NoSse == [emitted |-> 0, ended |-> ""]

NoExchange ==
    [pc |-> "idle", req |-> NoRequest, pv |-> "", body |-> Unread,
     resp |-> NoResp, fx |-> NoFx, net |-> NoNet, sse |-> NoSse]

Done(ex, resp) == [ex EXCEPT !.pc = "done", !.resp = resp]

(* -------------------------- handle_mcp_endpoint ------------------------- *)

\* access_token = token; if not access_token and authorization: strip "Bearer "
AccessToken(token, authorization) ==
    IF token # <<>> THEN token
    ELSE IF authorization = <<>> THEN <<>>
    ELSE IF Head(authorization) = "Bearer "
      THEN SelectSeq(authorization, LAMBDA x : x # "Bearer ")
      ELSE authorization

\* secrets.compare_digest on two str: TypeError unless both are ASCII
CompareDigest(a, b) ==
    IF (\E i \in DOMAIN a : a[i] \in NonAscii) \/ (\E i \in DOMAIN b : b[i] \in NonAscii)
      THEN "TypeError"
      ELSE IF a = b THEN "equal" ELSE "different"

\* a comparison that accepts every presented credential
TokenCheck_AcceptAll(access_token, expected) == "ok"

\* "if not access_token or not deployment.access_token or not compare_digest(..)"
TokenCheck(access_token, expected) ==
    IF access_token = <<>> \/ expected = <<>> THEN "unauthorized"
    ELSE IF CompareDigest(access_token, expected) = "TypeError" THEN "TypeError"
    ELSE IF CompareDigest(access_token, expected) = "equal" THEN "ok"
    ELSE "unauthorized"

\* a gateway that falls back to the default for versions it does not know
ProtocolVersion_Downgrade(version) ==
    IF Supported(version) THEN version ELSE DEFAULT_PROTOCOL_VERSION

\* "mcp_protocol_version or DEFAULT_PROTOCOL_VERSION"
ProtocolVersion(version) ==
    IF version = NoHeader \/ version = "" THEN DEFAULT_PROTOCOL_VERSION ELSE version

\* a gateway that answers an unknown deployment like a bad credential
NotFound_AsUnauthorized(deployment_id, version) ==
    JsonRpcError(401, None, -32001, <<"Unauthorized: Invalid access token">>, version)

\* "if not deployment: return JSONResponse(status_code=404, ...)"
NotFound(deployment_id, version) ==
    JsonRpcError(404, None, -32001, <<"Deployment not found: ", deployment_id>>, version)

\* lines 224-276, up to the dispatch on request.method
EndpointOutcome(r) ==
    LET ex == [NoExchange EXCEPT !.req = r]
        hdr == ProtocolVersion(r.version)
    IN  IF ~Exists(r.deployment_id)
          THEN Done(ex, NotFound(r.deployment_id, hdr))
        ELSE LET check == TokenCheck(AccessToken(r.token, r.authorization),
                                     Directory[r.deployment_id].access_token)
             IN  IF check = "TypeError" THEN Done(ex, ServerError)
                 ELSE IF check # "ok"
                   THEN Done(ex, JsonRpcError(401, None, -32001,
                                 <<"Unauthorized: Invalid access token">>, hdr))
                 ELSE IF ~Supported(hdr)
                   THEN Done(ex, [JsonRpcError(400, None, -32600,
                                     <<"Unsupported protocol version: ", hdr>>, NoHeader)
                                  EXCEPT !.list = SUPPORTED_PROTOCOL_VERSIONS])
                 ELSE IF r.verb = "GET"
                   \* handle_get_sse_stream: the EventSourceResponse is returned
                   THEN [ex EXCEPT !.pc = "streaming", !.pv = hdr,
                                   !.resp = [NoResp EXCEPT !.status = 200, !.kind = "sse",
                                                           !.version = hdr]]
                   \* handle_post_message, suspended in "await request.json()"
                   ELSE [ex EXCEPT !.pc = "post", !.pv = hdr]

HandleMcpEndpoint(t, r) ==
    /\ task[t].op = "idle"
    /\ http[t].pc = "idle"
    /\ nreq' = nreq + 1
    /\ http' = [http EXCEPT ![t] = EndpointOutcome(r)]
    /\ UNCHANGED <<pmvars, FLY_API_TOKEN, active_sessions>>

(* -------------------------- handle_get_sse_stream ----------------------- *)

\* number of keep-alive comments followed in one event channel
MaxKeepAlives == 2

\* event_generator starts: yield {"comment": "connection-established"}
SseEstablished(t) ==
    /\ http[t].pc = "streaming"
    /\ http[t].sse.emitted = 0
    /\ http' = [http EXCEPT ![t].sse.emitted = 1]
    /\ UNCHANGED <<pmvars, FLY_API_TOKEN, active_sessions, nreq>>

\* a generator that stops after its first keep-alive
SseKeepAlive_Once(t) ==
    /\ http[t].pc = "streaming"
    /\ http[t].sse.emitted >= 1
    /\ http[t].sse.emitted <= MaxKeepAlives
    /\ http' = [http EXCEPT ![t].sse.emitted = @ + 1, ![t].pc = "done"]
    /\ UNCHANGED <<pmvars, FLY_API_TOKEN, active_sessions, nreq>>

\* while True: await asyncio.sleep(30); yield {"comment": "keep-alive"}
SseKeepAlive(t) ==
    /\ http[t].pc = "streaming"
    /\ http[t].sse.emitted >= 1
    /\ http[t].sse.emitted <= MaxKeepAlives
    /\ http' = [http EXCEPT ![t].sse.emitted = @ + 1]
    /\ UNCHANGED <<pmvars, FLY_API_TOKEN, active_sessions, nreq>>

\* a disconnect that also stops the deployment's child process
SseDisconnect_StopsBackend(t) ==
    /\ http[t].pc = "streaming"
    /\ http' = [http EXCEPT ![t].pc = "done", ![t].sse.ended = "cancelled"]
    /\ proc' = [p \in Pids |->
                  IF proc[p].dep = http[t].req.deployment_id
                    THEN [proc[p] EXCEPT !.status = "exited"] ELSE proc[p]]
    /\ UNCHANGED <<IS_WINDOWS, _running_servers, nprocs, lock, ncalls, task,
                   FLY_API_TOKEN, active_sessions, nreq>>

\* the caller disconnects: the generator is cancelled ("except
\* asyncio.CancelledError") and yields nothing more
SseDisconnect(t) ==
    /\ http[t].pc = "streaming"
    /\ http' = [http EXCEPT ![t].pc = "done", ![t].sse.ended = "cancelled"]
    /\ UNCHANGED <<pmvars, FLY_API_TOKEN, active_sessions, nreq>>

(* -------------------------- handle_post_message ------------------------- *)

\* "msg_id is None and method is not None"
IsNotification(b) == b.id = None /\ b.method # NoMethod

\* '"result" in body or "error" in body'
IsResponse(b) == b.has_result

\* what handle_post_message answers without calling process_jsonrpc_request
PostOutcome(ex, b) ==
    IF b.shape = "invalid_json"
      THEN Done([ex EXCEPT !.body = b],
                JsonRpcError(400, None, -32700, <<"Parse error: Invalid JSON">>, NoHeader))
    ELSE IF b.shape = "not_object"
      \* body.get raises AttributeError
      THEN Done([ex EXCEPT !.body = b], ServerError)
    ELSE IF Directory[ex.req.deployment_id].machine_id # ""
      THEN [ex EXCEPT !.pc = "forward", !.body = b]
    ELSE \* notification or response: 202 Accepted, no body
      Done([ex EXCEPT !.body = b],
           [NoResp EXCEPT !.status = 202, !.kind = "empty", !.version = ex.pv])

\* the message goes to process_jsonrpc_request
IsLocalRequest(ex, b) ==
    /\ b.shape = "object"
    /\ Directory[ex.req.deployment_id].machine_id = ""
    /\ ~IsNotification(b)
    /\ ~IsResponse(b)

\* process_jsonrpc_request for the methods the gateway answers itself
AnsweredLocally(ex, b, session_id) ==
    LET pv == ex.pv
        d  == ex.req.deployment_id
        e  == [ex EXCEPT !.body = b]
    IN  IF b.method = "initialize"
          THEN Done(e, [JsonRpcResult(b.id, pv) EXCEPT !.pv = pv, !.sid = session_id])
        ELSE IF b.method = "tools/list"
          THEN Done(e, [JsonRpcResult(b.id, pv) EXCEPT !.list = Directory[d].tools])
        ELSE IF b.method = "ping"
          THEN Done(e, JsonRpcResult(b.id, pv))
        ELSE IF b.method = "resources/list"
          THEN Done(e, [JsonRpcResult(b.id, pv) EXCEPT !.list = Directory[d].resources])
        ELSE IF b.method = "prompts/list"
          THEN Done(e, [JsonRpcResult(b.id, pv) EXCEPT !.list = Directory[d].prompts])
        ELSE IF b.method = "tools/call"
          THEN Done(e, [JsonRpcError(200, b.id, INTERNAL_ERROR,
                           <<"MCP server not running for this deployment.">>, pv)
                        EXCEPT !.kind = "jsonrpc_error"])
        ELSE Done(e, JsonRpcError(200, b.id, -32601, <<"Method not found: ", b.method>>, pv))

\* session ids that may be handed out although a session has them
FreshSessionIds_Any(sessions) == SessionIds

\* str(uuid.uuid4()): an identifier no session has
FreshSessionIds(sessions) == {sid \in SessionIds : sessions[sid] = NoSession}

ProcessJsonrpcRequest(t, b) ==
    LET ex == http[t]
        d  == ex.req.deployment_id
    IN  IF b.method = "initialize" /\ ex.req.session = None
          THEN \* session_id = str(uuid.uuid4()); active_sessions[session_id] = {...}
               \E sid \in FreshSessionIds(active_sessions) :
                 /\ active_sessions' = [active_sessions EXCEPT ![sid] =
                        [deployment_id |-> d, protocol_version |-> ex.pv, initialized |-> TRUE]]
                 /\ http' = [http EXCEPT ![t] =
                        [AnsweredLocally(ex, b, sid) EXCEPT !.fx.created = sid]]
                 /\ UNCHANGED <<proc, lock, ncalls, task>>
        ELSE IF b.method = "tools/call" /\ AlreadyRunning(d)
          THEN \* server.call_tool(method, params, msg_id)
               /\ EnterCallTool(t, d, b.id)
               /\ http' = [http EXCEPT ![t] = [ex EXCEPT !.pc = "calling", !.body = b,
                                                           !.fx.called = TRUE]]
               /\ UNCHANGED active_sessions
        ELSE /\ http' = [http EXCEPT ![t] = AnsweredLocally(ex, b, ex.req.session)]
             /\ UNCHANGED <<proc, lock, ncalls, task, active_sessions>>

\* request.json() returned or raised: lines 344-411
HandlePostMessage(t, b) ==
    /\ http[t].pc = "post"
    /\ IF IsLocalRequest(http[t], b)
         THEN ProcessJsonrpcRequest(t, b)
         ELSE /\ http' = [http EXCEPT ![t] = PostOutcome(http[t], b)]
              /\ UNCHANGED <<proc, lock, ncalls, task, active_sessions>>
    /\ UNCHANGED <<IS_WINDOWS, _running_servers, nprocs, FLY_API_TOKEN, nreq>>

\* call_tool returned to process_jsonrpc_request: 200 with the dict it returned
HttpCallReturn(t) ==
    /\ http[t].pc = "calling"
    /\ task[t].op = "call_tool"
    /\ task[t].pc = "done"
    /\ http' = [http EXCEPT ![t] =
           Done(http[t], [NoResp EXCEPT !.status = 200,
                            !.kind = IF task[t].res.kind = "response"
                                       THEN "jsonrpc_result" ELSE "jsonrpc_error",
                            !.code = task[t].res.code, !.id = task[t].res.id,
                            !.msg = <<task[t].res.why>>, !.version = http[t].pv])]
    /\ task' = [task EXCEPT ![t] = Idle]
    /\ UNCHANGED <<IS_WINDOWS, _running_servers, proc, nprocs, lock, ncalls,
                   FLY_API_TOKEN, active_sessions, nreq>>

(* --------------- _forward_to_fly_machine_streamable_http ---------------- *)

\* what one _do_forward(url) can end with
Deliveries == {"json", "event-stream", "ConnectError", "Exception"}
UpstreamStatuses == {200, 500}

\* The Response built from the upstream answer.  A JSON answer is read inside
\* "async with client.stream(...)" and returned whole.  An event stream is
\* returned as StreamingResponse(upstream.aiter_raw()): the return leaves the
\* two "async with" blocks, which close the upstream response, so the first
\* iteration of the body raises httpx.StreamClosed after the status line and
\* the headers have been sent.
Upstream(ex, delivery, status) ==
    IF delivery = "event-stream"
      THEN [NoResp EXCEPT !.status = status, !.kind = "upstream_stream",
                          !.msg = <<"httpx.StreamClosed">>]
      ELSE [NoResp EXCEPT !.status = status, !.kind = "upstream"]

\* a 502 that does not say which request failed
BadGateway_NoId(ex, message) ==
    JsonRpcError(502, None, INTERNAL_ERROR, <<message>>, ex.pv)

\* the 502 JSONResponse of lines 129-200
BadGateway(ex, message) ==
    JsonRpcError(502, ex.body.id, INTERNAL_ERROR, <<message>>, ex.pv)

\* what the Machines API holds for the machine
MachineInfos == {"private_ip", "no_private_ip", "unavailable"}

\* FlyDeploymentService.get_machine(self, machine_id, user_id, db) called with
\* the positional arguments args: a call that does not bind user_id and db
\* raises TypeError; otherwise the machine's record, or None when the API
\* does not answer 200 (which has no private_ip), is returned
GetMachine(args, info) ==
    IF Len(args) # 3 THEN "fails"
    ELSE IF info = "unavailable" THEN "no_private_ip" ELSE info

ForwardOutcome(ex, first, status, lookup, second, token_set) ==
    IF first \in {"json", "event-stream"}
      THEN Done([ex EXCEPT !.fx.outbound = <<"dns">>], Upstream(ex, first, status))
    ELSE IF first = "Exception"
      THEN Done([ex EXCEPT !.fx.outbound = <<"dns">>],
                BadGateway(ex, "Error connecting to MCP server"))
    ELSE IF ~token_set
      THEN Done([ex EXCEPT !.fx.outbound = <<"dns">>],
                BadGateway(ex, "internal DNS failed and no FLY_API_TOKEN for lookup"))
    ELSE IF lookup = "fails"
      THEN Done([ex EXCEPT !.fx.outbound = <<"dns", "lookup">>],
                BadGateway(ex, "Machines API lookup failed"))
    ELSE IF lookup = "no_private_ip"
      THEN Done([ex EXCEPT !.fx.outbound = <<"dns", "lookup">>],
                BadGateway(ex, "no private IP address"))
    ELSE IF second \in {"json", "event-stream"}
      THEN Done([ex EXCEPT !.fx.outbound = <<"dns", "lookup", "ip">>],
                Upstream(ex, second, status))
    ELSE Done([ex EXCEPT !.fx.outbound = <<"dns", "lookup", "ip">>],
              BadGateway(ex, "Error connecting to MCP server"))

\* line 143: fly_service.get_machine(deployment.machine_id)
Forward(t) ==
    /\ http[t].pc = "forward"
    /\ \E first \in Deliveries, status \in UpstreamStatuses,
          info \in MachineInfos, second \in Deliveries :
         http' = [http EXCEPT ![t] =
                     ForwardOutcome([http[t] EXCEPT !.net = [first |-> first,
                                         info |-> IF first = "ConnectError" /\ FLY_API_TOKEN
                                                    THEN info ELSE ""]],
                                    first, status,
                                    GetMachine(<<Directory[http[t].req.deployment_id].machine_id>>, info),
                                    second, FLY_API_TOKEN)]
    /\ UNCHANGED <<pmvars, FLY_API_TOKEN, active_sessions, nreq>>

\* the response has been sent; the handler's coroutine ends
HttpReturn(t) ==
    /\ http[t].pc = "done"
    /\ http' = [http EXCEPT ![t] = NoExchange]
    /\ UNCHANGED <<pmvars, FLY_API_TOKEN, active_sessions, nreq>>

(* --------------------------- specification ----------------------------- *)

Init ==
    /\ IS_WINDOWS \in BOOLEAN
    /\ _running_servers = [d \in Deployments |-> None]
    /\ proc = [p \in Pids |-> NoProc]
    /\ nprocs = 0
    /\ ncalls = 0
    /\ lock = [p \in Pids |-> NewLock]
    /\ task = [t \in Tasks |-> Idle]
    /\ FLY_API_TOKEN = FALSE
    /\ active_sessions = [sid \in SessionIds |-> NoSession]
    /\ http = [t \in Tasks |-> NoExchange]
    /\ nreq = 0

Next ==
    \/ \E t \in Tasks, d \in Deployments : StartServerBegin(t, d, IS_WINDOWS)
    \/ \E t \in Tasks : StartServerFinish(t)
    \/ \E t \in Tasks, d \in Deployments, i \in MsgIds : CallToolBegin(t, d, i)
    \/ \E t \in Tasks : CallToolLocked(t)
    \/ \E t \in Tasks : CallToolRead(t)
    \/ \E t \in Tasks : CallToolEof(t)
    \/ \E t \in Tasks : CallToolTimeout(t, IS_WINDOWS)
    \/ \E t \in Tasks : TaskReturn(t)
    \/ \E p \in Pids, k \in {"valid", "malformed"} : BackendRespond(p, k)
    \/ \E p \in Pids : BackendIgnore(p)
    \/ \E p \in Pids : BackendExit(p)

Spec == Init /\ [][Next]_vars

(* Fairness: the event loop runs every coroutine that is ready to resume.   *)
(* Nothing is assumed of the child processes or of new calls arriving.      *)
Resume(t) ==
    \/ StartServerFinish(t)
    \/ CallToolLocked(t)
    \/ CallToolRead(t)
    \/ CallToolEof(t)
    \/ CallToolTimeout(t, IS_WINDOWS)

FairSpec == Spec /\ \A t \in Tasks : WF_vars(Resume(t))

(* ---------------- the two I/O paths side by side ------------------------ *)
(* Two gateways, one per platform, each with one started ServerProcess:     *)
(* task 1 calls process 1 through _call_tool_unix, task 2 calls process 2   *)
(* through _call_tool_windows.  The children run a program of a fixed mode. *)

UnixSide == 1
WindowsSide == 2
SideDep(t) == IF t = UnixSide THEN "d1" ELSE "d2"

InitEquiv ==
    /\ IS_WINDOWS = FALSE
    /\ _running_servers = [d \in Deployments |-> IF d = "d1" THEN 1 ELSE 2]
    /\ \E m1, m2 \in Modes :
         proc = [p \in Pids |->
                   IF p = 1 THEN [NoProc EXCEPT !.dep = "d1", !.status = "running", !.mode = m1]
                   ELSE IF p = 2 THEN [NoProc EXCEPT !.dep = "d2", !.status = "running", !.mode = m2]
                   ELSE NoProc]
    /\ nprocs = 2
    /\ lock = [p \in Pids |-> NewLock]
    /\ ncalls = 0
    /\ task = [t \in Tasks |-> Idle]
    /\ FLY_API_TOKEN = FALSE
    /\ active_sessions = [sid \in SessionIds |-> NoSession]
    /\ http = [t \in Tasks |-> NoExchange]
    /\ nreq = 0

SideStep(t) ==
    \/ \E i \in MsgIds : CallToolBegin(t, SideDep(t), i)
    \/ CallToolRead(t)
    \/ CallToolEof(t)
    \/ CallToolTimeout(t, t = WindowsSide)
    \/ \E k \in {"valid", "malformed"} : BackendRespond(t, k)
    \/ BackendIgnore(t)
    \/ BackendExit(t)

NextEquiv ==
    \/ \E i \in MsgIds : CallToolBegin(UnixSide, SideDep(UnixSide), i)
    \/ \E i \in MsgIds : CallToolBegin(WindowsSide, SideDep(WindowsSide), i)
    \/ \E t \in {UnixSide, WindowsSide} : CallToolRead(t)
    \/ \E t \in {UnixSide, WindowsSide} : CallToolEof(t)
    \/ CallToolTimeout(UnixSide, FALSE)
    \/ \E p \in {1, 2}, k \in {"valid", "malformed"} : BackendRespond(p, k)
    \/ \E p \in {1, 2} : BackendIgnore(p)
    \/ \E p \in {1, 2} : BackendExit(p)

SpecEquiv == InitEquiv /\ [][NextEquiv]_vars

(* ------------------------ the HTTP gateway ------------------------------ *)
(* One request handler (task 1) serves one HTTP exchange at a time; the     *)
(* other tasks start local servers, as create_deployment does.              *)

HttpTask == 1

InitGateway ==
    /\ IS_WINDOWS = FALSE
    /\ _running_servers = [d \in Deployments |-> None]
    /\ proc = [p \in Pids |-> NoProc]
    /\ nprocs = 0
    /\ lock = [p \in Pids |-> NewLock]
    /\ ncalls = 0
    /\ task = [t \in Tasks |-> Idle]
    /\ FLY_API_TOKEN \in BOOLEAN
    /\ active_sessions = [sid \in SessionIds |-> NoSession]
    /\ http = [t \in Tasks |-> NoExchange]
    /\ nreq = 0

NextGateway ==
    \/ nreq < MaxRequests /\ \E r \in Requests : HandleMcpEndpoint(HttpTask, r)
    \/ \E b \in GatewayBodies : HandlePostMessage(HttpTask, b)
    \/ HttpCallReturn(HttpTask)
    \/ Forward(HttpTask)
    \/ SseEstablished(HttpTask)
    \/ SseKeepAlive(HttpTask)
    \/ SseDisconnect(HttpTask)
    \/ HttpReturn(HttpTask)
    \/ CallToolRead(HttpTask)
    \/ CallToolEof(HttpTask)
    \/ CallToolTimeout(HttpTask, IS_WINDOWS)
    \/ \E t \in Tasks \ {HttpTask} : StartServerBegin(t, "d1", IS_WINDOWS)
    \/ \E t \in Tasks \ {HttpTask} : StartServerFinish(t)
    \/ \E p \in Pids, k \in {"valid", "malformed"} : BackendRespond(p, k)
    \/ \E p \in Pids : BackendExit(p)

SpecGateway == InitGateway /\ [][NextGateway]_vars

(* ------------------ two callers probing the endpoint -------------------- *)
(* Two request handlers each receive one request; what they answer can be   *)
(* compared in one state.                                                   *)

ProbeTasks == {1, 2}

\* the requests of a caller that has not opened a session
ProbeRequests ==
    {r \in Requests : r.session = None /\ r.version \in {NoHeader, "1999-01-01"}}

NextProbe ==
    \E t \in ProbeTasks, r \in ProbeRequests : HandleMcpEndpoint(t, r)

SpecProbe == InitGateway /\ [][NextProbe]_vars

(* ------------------------ handshakes and sessions ----------------------- *)
(* One caller per deployment, holding the deployment's access token, sends  *)
(* initialize and the capability-listing requests one after the other, with *)
(* or without the Mcp-Session-Id header.                                    *)

\* number of POSTs the callers send in one run
MaxHandshakes == 2

SessionRequests ==
    {r \in Requests :
        /\ r.verb = "POST"
        /\ Exists(r.deployment_id)
        /\ r.authorization = <<>>
        /\ r.token = Directory[r.deployment_id].access_token
        /\ r.version \in {NoHeader, "2025-06-18", "2024-11-05"}}

SessionBodies ==
    {b \in Bodies :
        /\ b.shape = "object" /\ b.id = 1 /\ ~b.has_result
        /\ b.method \in {"initialize", "tools/list", "resources/list", "prompts/list"}}

NextSession ==
    \/ nreq < MaxHandshakes /\ \E r \in SessionRequests : HandleMcpEndpoint(HttpTask, r)
    \/ \E b \in SessionBodies : HandlePostMessage(HttpTask, b)
    \/ Forward(HttpTask)
    \/ HttpReturn(HttpTask)

SpecSession == InitGateway /\ [][NextSession]_vars

(* --------------------------- event channels ----------------------------- *)
(* One request handler (task 1) opens event channels with GET while the     *)
(* other task starts the local server of d1 and calls its tools.            *)

\* the coroutine that uses the process manager meanwhile
BridgeTask == 2

ChannelRequests ==
    {r \in Requests :
        /\ r.verb = "GET"
        /\ r.deployment_id \in Deployments
        /\ r.authorization = <<>>
        /\ r.token \in {<<"tok1">>, <<"tok2">>}
        /\ r.version \in {NoHeader, "2025-06-18"}
        /\ r.session = None}

NextChannel ==
    \/ nreq < MaxRequests /\ \E r \in ChannelRequests : HandleMcpEndpoint(HttpTask, r)
    \/ SseEstablished(HttpTask)
    \/ SseKeepAlive(HttpTask)
    \/ SseDisconnect(HttpTask)
    \/ HttpReturn(HttpTask)
    \/ StartServerBegin(BridgeTask, "d1", IS_WINDOWS)
    \/ StartServerFinish(BridgeTask)
    \/ \E i \in MsgIds : CallToolBegin(BridgeTask, "d1", i)
    \/ CallToolRead(BridgeTask)
    \/ CallToolEof(BridgeTask)
    \/ CallToolTimeout(BridgeTask, IS_WINDOWS)
    \/ TaskReturn(BridgeTask)
    \/ \E p \in Pids : BackendRespond(p, "valid")
    \/ \E p \in Pids : BackendExit(p)

SpecChannel == InitGateway /\ [][NextChannel]_vars

(* Fairness: the event loop resumes the generator when its sleep is over.   *)
(* Nothing is assumed of the caller, who may stay connected for ever.       *)
FairSpecChannel ==
    /\ SpecChannel
    /\ WF_vars(SseEstablished(HttpTask))
    /\ WF_vars(SseKeepAlive(HttpTask))

(* ------------------------ starting and stopping ------------------------- *)
(* Coroutines start and stop the local servers while the children run,      *)
(* exit on their own or on a signal, or ignore SIGTERM.                     *)

\* the coroutines that start and stop servers
LifecycleTasks == {1, 2}

NextLifecycle ==
    \/ \E t \in LifecycleTasks, d \in Deployments : StartServerBegin(t, d, IS_WINDOWS)
    \/ \E t \in LifecycleTasks : StartServerFinish(t)
    \/ \E t \in LifecycleTasks, d \in Deployments : StopServerBegin(t, d)
    \/ \E t \in LifecycleTasks : StopAllBegin(t)
    \/ \E t \in LifecycleTasks : StopWaitReturns(t)
    \/ \E t \in LifecycleTasks : StopGraceExpired(t)
    \/ \E t \in LifecycleTasks : StopKillReturns(t)
    \/ \E t \in LifecycleTasks : TaskReturn(t)
    \/ \E p \in Pids : BackendExit(p)
    \/ \E p \in Pids : BackendKilled(p)

SpecLifecycle == Init /\ [][NextLifecycle]_vars

(* ------------------------- a backend that crashes ----------------------- *)
(* The request handler (task 1) receives tools/call for the local           *)
(* deployment d1 while the other coroutine starts the servers and calls     *)
(* d2's directly; the children answer or exit at any time.                  *)

CallRequests ==
    {r \in Requests :
        /\ r.verb = "POST"
        /\ r.deployment_id = "d1"
        /\ r.authorization = <<>>
        /\ r.token = Directory["d1"].access_token
        /\ r.version = NoHeader
        /\ r.session = None}

CallBodies ==
    {b \in Bodies : b.shape = "object" /\ b.id # None /\ ~b.has_result
                    /\ b.method = "tools/call"}

NextCrash ==
    \/ nreq < MaxRequests /\ \E r \in CallRequests : HandleMcpEndpoint(HttpTask, r)
    \/ \E b \in CallBodies : HandlePostMessage(HttpTask, b)
    \/ HttpCallReturn(HttpTask)
    \/ HttpReturn(HttpTask)
    \/ \E d \in Deployments : StartServerBegin(BridgeTask, d, IS_WINDOWS)
    \/ StartServerFinish(BridgeTask)
    \/ \E i \in MsgIds : CallToolBegin(BridgeTask, "d2", i)
    \/ \E t \in {HttpTask, BridgeTask} : CallToolRead(t)
    \/ \E t \in {HttpTask, BridgeTask} : CallToolEof(t)
    \/ \E t \in {HttpTask, BridgeTask} : CallToolTimeout(t, IS_WINDOWS)
    \/ TaskReturn(BridgeTask)
    \/ \E p \in Pids : BackendRespond(p, "valid")
    \/ \E p \in Pids : BackendExit(p)

SpecCrash == InitGateway /\ [][NextCrash]_vars

(* ------------------------------ properties ------------------------------ *)

\* child processes of deployment d that are running
LiveProcs(d) == {p \in Pids : proc[p].dep = d /\ proc[p].status = "running"}

\* tasks between the write of their request and the end of their read on p
InCritical(p) ==
    {t \in Tasks : task[t].op = "call_tool" /\ task[t].pc = "reading" /\ task[t].p = p}

\* C1: under any interleaving of start_server calls there is at most one
\* running child process per deployment id (no second process is created).
C1_OneProcessPerDeployment ==
    \A d \in Deployments : Cardinality(LiveProcs(d)) <= 1

\* C2: a start_server call that finds its deployment registered returns True
\* at once, spawns nothing and leaves the registry as it was.
C2_StartIdempotent ==
    [][\A t \in Tasks :
        (/\ task[t].op = "idle"
         /\ task'[t].op = "start_server"
         /\ _running_servers[task'[t].d] # None)
        => /\ task'[t].pc = "done"
           /\ task'[t].res.kind = "true"
           /\ task'[t].p = _running_servers[task'[t].d]
           /\ _running_servers' = _running_servers
           /\ proc' = proc
           /\ nprocs' = nprocs]_vars

C2_Witness ==
    \E t \in Tasks : /\ task[t].op = "start_server"
                     /\ task[t].res.why = "already_running"
                     /\ task[t].res.kind = "true"

\* C3: at most one call_tool is between its write and the end of its read on
\* a ServerProcess, that call holds the lock, and a request frame is written
\* to a child only when no other call is in that section.
C3_OneCallInCriticalSection ==
    /\ [](\A p \in Pids : /\ Cardinality(InCritical(p)) <= 1
                          /\ \A t \in InCritical(p) : lock[p].holder = t)
    /\ [][\A p \in Pids : Len(proc'[p].stdin) > Len(proc[p].stdin)
                             => InCritical(p) = {}]_vars

C3_Witness ==
    \E p \in Pids, t1, t2 \in Tasks :
        /\ t1 \in InCritical(p)
        /\ task[t2].op = "call_tool" /\ task[t2].pc = "waiting" /\ task[t2].p = p

\* C4: when call_tool has ended the caller no longer holds the lock; a call
\* ended by timeout, malformed line or closed output returned an error with
\* code -32603 and the request's id; the lock is only ever held by a call
\* that is inside its critical section, so a later call can take it.
C4_LockReleasedAndErrorShaped ==
    /\ \A t \in Tasks :
         (task[t].op = "call_tool" /\ task[t].pc = "done")
         => /\ lock[task[t].p].holder # t
            /\ task[t].res.why \in {"timeout", "malformed", "closed", "broken_pipe"}
                 => /\ task[t].res.kind = "error"
                    /\ task[t].res.code = -32603
                    /\ task[t].res.id = task[t].id
            /\ task[t].res.why = "response" => task[t].res.kind = "response"
    /\ \A p \in Pids : lock[p].holder # None => lock[p].holder \in InCritical(p)

C4_Witness ==
    \E t1, t2 \in Tasks :
        /\ task[t1].op = "call_tool" /\ task[t1].pc = "done"
        /\ task[t1].res.why \in {"timeout", "malformed", "closed"}
        /\ task[t2].op = "call_tool" /\ task[t2].pc = "reading"
        /\ task[t2].p = task[t1].p

\* C5: every call_tool invocation eventually returns to its caller.
C5_CallEventuallyReturns ==
    \A t \in Tasks : (task[t].op = "call_tool") ~> (task[t].pc = "done")

\* a call that can take no further step, with a child that will do nothing more
Settled(t) ==
    /\ task[t].op = "call_tool"
    /\ ~ ENABLED SideStep(t)

\* C6: given the same request and the same backend behaviour, the Unix path
\* and the Windows path end with the same outcome and the same lock state.
C6_PathsEquivalent ==
    (/\ Settled(UnixSide) /\ Settled(WindowsSide)
     /\ task[UnixSide].id = task[WindowsSide].id
     /\ proc[1].mode = proc[2].mode)
    => /\ task[UnixSide].pc = task[WindowsSide].pc
       /\ task[UnixSide].res = task[WindowsSide].res
       /\ lock[1].holder = None <=> lock[2].holder = None

\* the presented credential is the deployment's access token
ValidCredential(r) ==
    /\ Exists(r.deployment_id)
    /\ AccessToken(r.token, r.authorization) = Directory[r.deployment_id].access_token

\* the handler of task t has produced its response
Answered(t) == http[t].resp.kind # "none"

\* a JSON-RPC Request: a JSON object with an id and a method and no result/error
WellFormedRequest(b) ==
    b.shape = "object" /\ b.id # None /\ b.method # NoMethod /\ ~b.has_result

\* C7: for an existing deployment a request without the matching credential
\* is answered 401 whatever else it carries, and a POST with the matching
\* credential and a well-formed request is answered 200.
C7_TokenDecidesStatus ==
    \A t \in Tasks :
        (Answered(t) /\ Exists(http[t].req.deployment_id))
        => /\ ~ValidCredential(http[t].req) => http[t].resp.status = 401
           /\ (/\ ValidCredential(http[t].req)
               /\ http[t].req.verb = "POST"
               /\ Supported(ProtocolVersion(http[t].req.version))
               /\ WellFormedRequest(http[t].body))
              => http[t].resp.status = 200

\* the errors the gateway itself answers: authorization, not found, version,
\* parse error, unknown method
GatewayRejection(resp) ==
    /\ resp.kind = "jsonrpc_error"
    /\ \/ resp.status \in {401, 404, 400}
       \/ resp.code = -32601

SameButDeployment(r1, r2) ==
    [r1 EXCEPT !.deployment_id = ""] = [r2 EXCEPT !.deployment_id = ""]

\* C9: a request without a valid credential gets the same status
\* and body whether or not the requested deployment exists.
C9_ExistenceHidden ==
    \A t1, t2 \in Tasks :
        (/\ Answered(t1) /\ Answered(t2)
         /\ SameButDeployment(http[t1].req, http[t2].req)
         /\ Exists(http[t1].req.deployment_id)
         /\ ~Exists(http[t2].req.deployment_id)
         /\ ~ValidCredential(http[t1].req))
        => http[t1].resp = http[t2].resp

\* C9 amended: without a valid credential the answer is 404 exactly when the
\* deployment does not exist, and it is the same for any two existing
\* deployments.
C9_OnlyExistenceLeaks ==
    /\ \A t \in Tasks :
         (Answered(t) /\ ~ValidCredential(http[t].req))
         => IF Exists(http[t].req.deployment_id)
              THEN http[t].resp.status \in {401, 500}
              ELSE http[t].resp.status = 404
    /\ \A t1, t2 \in Tasks :
         (/\ Answered(t1) /\ Answered(t2)
          /\ SameButDeployment(http[t1].req, http[t2].req)
          /\ Exists(http[t1].req.deployment_id) /\ ~ValidCredential(http[t1].req)
          /\ Exists(http[t2].req.deployment_id) /\ ~ValidCredential(http[t2].req))
         => http[t1].resp = http[t2].resp

C9_Witness ==
    \E t1, t2 \in Tasks :
        /\ SameButDeployment(http[t1].req, http[t2].req)
        /\ http[t1].req.deployment_id = "d1" /\ http[t1].resp.status = 401
        /\ http[t2].req.deployment_id = "dX" /\ http[t2].resp.status = 404

\* the request passed the credential check
Authenticated(t) ==
    (Answered(t) \/ http[t].pc = "post") /\ ValidCredential(http[t].req)

\* the request was accepted: the gateway went on to process it
Accepted(t) == http[t].pv # ""

\* C10: an authenticated request is answered 400/-32600 with the
\* supported versions when the header names a version outside the set, is
\* processed under the default when there is no header, and is otherwise
\* processed under exactly the version the header names.
C10_VersionAsDeclared ==
    \A t \in Tasks :
        Authenticated(t)
        => LET v == http[t].req.version IN
           /\ (v # NoHeader /\ ~Supported(v))
                => /\ http[t].resp.status = 400
                   /\ http[t].resp.code = -32600
                   /\ http[t].resp.list = SUPPORTED_PROTOCOL_VERSIONS
                   /\ ~Accepted(t)
           /\ (v = NoHeader) => (Accepted(t) /\ http[t].pv = DEFAULT_PROTOCOL_VERSION)
           /\ (v # NoHeader /\ Accepted(t)) => http[t].pv = v

\* C10 amended: the same, except that an empty version header is treated
\* as no header: the request is processed under the default version.
C10_VersionAsDeclaredUnlessEmpty ==
    \A t \in Tasks :
        Authenticated(t)
        => LET v == http[t].req.version IN
           /\ (v \notin {NoHeader, ""} /\ ~Supported(v))
                => /\ http[t].resp.status = 400
                   /\ http[t].resp.code = -32600
                   /\ http[t].resp.list = SUPPORTED_PROTOCOL_VERSIONS
                   /\ ~Accepted(t)
           /\ (v \in {NoHeader, ""}) => (Accepted(t) /\ http[t].pv = DEFAULT_PROTOCOL_VERSION)
           /\ (v \notin {NoHeader, ""} /\ Accepted(t)) => http[t].pv = v
           /\ Accepted(t) => http[t].resp.version \in {NoHeader, http[t].pv}

C10_Witness ==
    \E t \in Tasks :
        /\ Authenticated(t)
        /\ http[t].req.version = ""
        /\ http[t].pv = DEFAULT_PROTOCOL_VERSION
        /\ http[t].resp.status = 200

\* the methods process_jsonrpc_request answers from the deployment record
ManagementMethods == {"initialize", "ping", "tools/list", "resources/list", "prompts/list"}

\* an authenticated POST with a JSON object as body has been answered
AnsweredPost(t) ==
    http[t].pc = "done" /\ http[t].req.verb = "POST" /\ http[t].body.shape = "object"

\* the deployment runs on a Fly machine
Remote(deployment_id) == Directory[deployment_id].machine_id # ""

\* C11: an authenticated POST that is a notification (method, no id) or a
\* caller's response (result or error, no method) is answered 202 with an
\* empty body, for local and remote deployments alike.
C11_NotificationsAccepted ==
    \A t \in Tasks :
        (/\ AnsweredPost(t)
         /\ \/ IsNotification(http[t].body)
            \/ http[t].body.has_result /\ http[t].body.method = NoMethod)
        => http[t].resp.status = 202 /\ http[t].resp.kind = "empty"

\* C12: an authenticated POST with an id and a method is answered with a
\* response body that carries the same id, whatever else the message
\* contains, and never with an empty 202.
C12_RequestsAnswered ==
    \A t \in Tasks :
        (AnsweredPost(t) /\ http[t].body.id # None /\ http[t].body.method # NoMethod)
        => /\ http[t].resp.status # 202
           /\ http[t].resp.kind # "empty"
           /\ http[t].resp.kind \in {"jsonrpc_result", "jsonrpc_error"}
                => http[t].resp.id = http[t].body.id

\* C13: a request for a protocol-management method writes nothing to a local
\* child and sends nothing to a remote machine, for deployments of either
\* hosting mode.
C13_ManagementStaysAtGateway ==
    \A t \in Tasks :
        (WellFormedRequest(http[t].body) /\ http[t].body.method \in ManagementMethods)
        => ~http[t].fx.called /\ http[t].fx.outbound = <<>>

\* C14: a request for any other method is handed to the deployment's backend
\* (the registered child or the machine), and what the backend answers is
\* what the caller receives.
C14_OthersForwarded ==
    /\ [][\A t \in Tasks :
            (/\ http[t].pc = "post" /\ http'[t].pc # "post"
             /\ WellFormedRequest(http'[t].body)
             /\ http'[t].body.method \notin ManagementMethods
             /\ Remote(http[t].req.deployment_id) \/ AlreadyRunning(http[t].req.deployment_id))
            => http'[t].pc \in {"forward", "calling"}]_vars
    /\ [](\A t \in Tasks :
            (/\ AnsweredPost(t)
             /\ WellFormedRequest(http[t].body)
             /\ http[t].body.method \notin ManagementMethods
             /\ http[t].resp.kind \in {"upstream", "upstream_stream"})
            => http[t].resp.msg = <<>>)

\* the live sessions of the registry
Sessions == {sid \in SessionIds : active_sessions[sid] # NoSession}

\* the version a request negotiates: the declared one if supported, else the default
Negotiated(version) ==
    IF Supported(version) THEN version ELSE DEFAULT_PROTOCOL_VERSION

\* a successfully answered initialize request
AnsweredInitialize(t) ==
    /\ AnsweredPost(t)
    /\ WellFormedRequest(http[t].body)
    /\ http[t].body.method = "initialize"
    /\ http[t].resp.status = 200

\* C15: an initialize request without a session id adds exactly one session
\* under an identifier the registry did not hold, which records the
\* deployment and the negotiated version, and the result carries that
\* version and the new identifier.
C15_InitializeAllocatesSession ==
    /\ [](\A t \in Tasks :
            (AnsweredInitialize(t) /\ http[t].req.session = None)
            => /\ http[t].fx.created \in Sessions
               /\ active_sessions[http[t].fx.created] =
                    [deployment_id |-> http[t].req.deployment_id,
                     protocol_version |-> Negotiated(http[t].req.version),
                     initialized |-> TRUE]
               /\ http[t].resp.sid = http[t].fx.created
               /\ http[t].resp.pv = Negotiated(http[t].req.version))
    /\ [][\A t \in Tasks :
            (http[t].fx.created = None /\ http'[t].fx.created # None)
            => /\ http'[t].fx.created \notin Sessions
               /\ Sessions' = Sessions \cup {http'[t].fx.created}]_vars

\* the request presents a session the gateway opened for this deployment
OnOwnSession(t) ==
    /\ http[t].req.session \in Sessions
    /\ active_sessions[http[t].req.session].deployment_id = http[t].req.deployment_id

\* C16: initialize repeated on an existing session succeeds, creates no
\* session, leaves the stored session as it was and confirms the same
\* session id with the version the session negotiated.
C16_HandshakeIdempotent ==
    /\ [](\A t \in Tasks :
            (AnsweredInitialize(t) /\ OnOwnSession(t))
            => /\ http[t].resp.kind = "jsonrpc_result"
               /\ http[t].fx.created = None
               /\ http[t].resp.sid = http[t].req.session
               /\ http[t].resp.pv = active_sessions[http[t].req.session].protocol_version)
    /\ [][\A t \in Tasks :
            (~AnsweredInitialize(t) /\ AnsweredInitialize(t)' /\ OnOwnSession(t)')
            => active_sessions' = active_sessions]_vars

ManifestList(deployment_id, method) ==
    IF method = "tools/list" THEN Directory[deployment_id].tools
    ELSE IF method = "resources/list" THEN Directory[deployment_id].resources
    ELSE Directory[deployment_id].prompts

\* C18: a capability-listing request on a session returns the list of the
\* deployment's manifest, unmodified and under the request's id.
C18_ListingRoundTrip ==
    \A t \in Tasks :
        (/\ AnsweredPost(t)
         /\ WellFormedRequest(http[t].body)
         /\ http[t].body.method \in {"tools/list", "resources/list", "prompts/list"}
         /\ http[t].req.session # None)
        => /\ http[t].resp.kind = "jsonrpc_result"
           /\ http[t].resp.id = http[t].body.id
           /\ http[t].resp.list = ManifestList(http[t].req.deployment_id, http[t].body.method)

\* the messages of the 502 answers
ConnectionFailures ==
    {<<"Error connecting to MCP server">>,
     <<"internal DNS failed and no FLY_API_TOKEN for lookup">>,
     <<"Machines API lookup failed">>,
     <<"no private IP address">>}

\* C19: the first attempt of a forwarded call goes to the internal DNS name;
\* the lookup and the attempt on the raw address happen only after that
\* attempt failed to connect; after such a failure (with the Machines API
\* configured) the lookup is made and, when the machine has a private
\* address, one retry goes to that address; at most one lookup and two
\* attempts per call.
C19_DnsThenLookupThenAddress ==
    \A t \in Tasks :
        (http[t].pc = "done" /\ http[t].fx.outbound # <<>>)
        => LET o == http[t].fx.outbound IN
           /\ o \in {<<"dns">>, <<"dns", "lookup">>, <<"dns", "lookup", "ip">>}
           /\ Len(o) > 1 => http[t].net.first = "ConnectError"
           /\ (http[t].net.first = "ConnectError" /\ FLY_API_TOKEN)
                => /\ Len(o) > 1
                   /\ http[t].net.info = "private_ip"
                        => /\ o = <<"dns", "lookup", "ip">>
                           /\ \/ http[t].resp.kind \in {"upstream", "upstream_stream"}
                              \/ http[t].resp.status = 502

C21_StreamPassedThrough ==
    \A t \in Tasks :
        http[t].pc = "done"
        => /\ http[t].net.first = "event-stream"
                => /\ http[t].resp.kind = "upstream_stream"
                   /\ http[t].resp.status \in UpstreamStatuses
                   /\ http[t].resp.msg # <<"httpx.StreamClosed">>
           /\ http[t].net.first = "json"
                => /\ http[t].resp.kind = "upstream"
                   /\ http[t].resp.status \in UpstreamStatuses
                   /\ http[t].resp.msg = <<>>

\* the exchange of task t is an open event channel
Streaming(t) == http[t].pc = "streaming"

\* C22: an open event channel stops only by cancellation (the caller went
\* away), and while it is open the next signal always comes: first
\* connection-established, then one keep-alive after the other.
C22_ChannelStaysOpen ==
    /\ [][\A t \in Tasks :
            Streaming(t) /\ ~Streaming(t)'
            => /\ http'[t].pc = "done"
               /\ http'[t].sse.ended = "cancelled"
               /\ http'[t].sse.emitted = http[t].sse.emitted]_vars
    /\ \A k \in 0..MaxKeepAlives :
         (Streaming(HttpTask) /\ http[HttpTask].sse.emitted = k)
           ~> (~Streaming(HttpTask) \/ http[HttpTask].sse.emitted > k)

C22_Witness ==
    /\ Streaming(HttpTask)
    /\ http[HttpTask].sse.emitted = MaxKeepAlives + 1
    /\ http[HttpTask].sse.ended = ""

\* the step opens, feeds, cancels or closes the event channel served by task t
ChannelStep(t) ==
    /\ http'[t] # http[t]
    /\ http[t].req.verb = "GET" \/ http'[t].req.verb = "GET"

\* C23: opening, holding and cancelling an event channel leaves the registry,
\* the child processes, their locks, the calls in progress and the sessions
\* as they are; a cancelled channel emits nothing more.
C23_ChannelFrame ==
    [][\A t \in Tasks :
         ChannelStep(t)
         => /\ UNCHANGED <<_running_servers, proc, nprocs, lock, ncalls, task>>
            /\ UNCHANGED <<active_sessions, FLY_API_TOKEN>>
            /\ http[t].sse.ended = "cancelled"
                 => http'[t].sse.emitted <= http[t].sse.emitted]_vars

C23_Witness ==
    /\ http[HttpTask].pc = "done"
    /\ http[HttpTask].resp.kind = "sse"
    /\ http[HttpTask].sse.ended = "cancelled"
    /\ http[HttpTask].sse.emitted > 1
    /\ \E p \in Pids :
         /\ proc[p].dep = http[HttpTask].req.deployment_id
         /\ proc[p].status = "running"
         /\ _running_servers[proc[p].dep] = p
         /\ lock[p].holder = BridgeTask

\* task t enters stop_server in this step / stop_server returns to t in this step
StopServerCalled(t) == task[t].op = "idle" /\ task'[t].op = "stop_server"
StopServerReturns(t) ==
    /\ task'[t].op = "stop_server"
    /\ task'[t].pc = "done"
    /\ task[t].pc # "done"

\* kill() is sent to child p in this step
KillSent(p) == Len(proc'[p].signals) > Len(proc[p].signals)
               /\ proc'[p].signals[Len(proc'[p].signals)] = "kill"

\* what C24 says of every step but the return of stop_server: the call
\* unregisters d and asks a running child to terminate; kill follows a
\* terminate that the child outlived; on an unregistered deployment nothing
\* changes
StopServerSteps ==
    /\ \A t \in Tasks :
         StopServerCalled(t)
         => LET d == task'[t].d
                p == _running_servers[d]
            IN  IF p = None
                  THEN UNCHANGED <<_running_servers, proc, nprocs, lock>>
                  ELSE /\ _running_servers'[d] = None
                       /\ proc[p].status = "running"
                            => proc'[p].signals # <<>> /\ proc'[p].signals[1] = "term"
    /\ \A p \in Pids :
         KillSent(p) => /\ proc[p].status = "running"
                        /\ proc'[p].signals[1] = "term"

\* C24: stop_server(d) unregisters d and requests termination, kills only
\* after the grace period, and when it returns the child has exited and d is
\* not registered.
C24_StopServer ==
    [][/\ StopServerSteps
       /\ \A t \in Tasks :
            StopServerReturns(t) /\ task'[t].p # None
            => /\ proc'[task'[t].p].status = "exited"
               /\ _running_servers'[task'[t].d] = None]_vars

\* C24 amended: the same, except that at the return d is not registered with
\* the stopped child: a start_server(d) that ran during the grace period has
\* registered a new one.
C24_StopServerUnlessRestarted ==
    [][/\ StopServerSteps
       /\ \A t \in Tasks :
            StopServerReturns(t) /\ task'[t].p # None
            => /\ proc'[task'[t].p].status = "exited"
               /\ _running_servers'[task'[t].d] # task'[t].p]_vars

C24_Witness ==
    \E t \in Tasks :
        /\ task[t].op = "stop_server"
        /\ task[t].pc = "done"
        /\ task[t].p # None
        /\ proc[task[t].p].signals = <<"term", "kill">>
        /\ proc[task[t].p].status = "exited"
        /\ ~IS_WINDOWS
        /\ _running_servers[task[t].d] \notin {None, task[t].p}

\* a call in progress is stopping child p
BeingStopped(p) ==
    \E t \in Tasks :
        /\ task[t].pc \in {"stop_wait", "stop_kill_wait"}
        /\ \E i \in 1..Len(task[t].todo) : task[t].todo[i] = p

\* stop_all_servers returns to t in this step
StopAllReturns(t) ==
    /\ task'[t].op = "stop_all_servers"
    /\ task'[t].pc = "done"
    /\ task[t].pc # "done"

\* child p is registered for its deployment
Registered(p) == _running_servers[proc[p].dep] = p

\* C29: when stop_all_servers returns no child is left running outside the
\* registry: every child still running is being stopped by another call.
\* Stated for the runs where no deployment was started twice and every
\* running child was registered or being stopped just before the return.
C29_StopAllLeavesNothing ==
    [][\A t \in Tasks :
         /\ StopAllReturns(t)
         /\ \A d \in Deployments : Cardinality({p \in Pids : proc[p].dep = d}) <= 1
         /\ \A p \in Pids : proc[p].status = "running" => Registered(p) \/ BeingStopped(p)
         => \A p \in Pids : proc'[p].status = "running" => BeingStopped(p)']_vars

\* the registered child of deployment d has exited
Crashed(d) == AlreadyRunning(d) /\ proc[_running_servers[d]].status = "exited"

\* C25: a tools/call that arrives after the child of its deployment has
\* exited gets call_tool's error -32603 with its own id at once, the gateway
\* returns it as a 200 JSON-RPC error with that id, and meanwhile a call for
\* another deployment, whose child runs, goes through to that child.
C25_CrashIsContained ==
    [][/\ \A t \in Tasks :
            /\ http[t].pc = "post" /\ http'[t].pc # "post"
            /\ Crashed(http[t].req.deployment_id)
            => /\ http'[t].pc = "calling"
               /\ task'[t].pc = "done"
               /\ task'[t].res.kind = "error"
               /\ task'[t].res.code = INTERNAL_ERROR
               /\ task'[t].res.id = http'[t].body.id
       /\ \A t \in Tasks :
            /\ http[t].pc = "calling" /\ http'[t].pc # "calling"
            /\ task[t].res.kind = "error"
            => /\ http'[t].pc = "done"
               /\ http'[t].resp.status = 200
               /\ http'[t].resp.kind = "jsonrpc_error"
               /\ http'[t].resp.code = task[t].res.code
               /\ http'[t].resp.id = task[t].res.id
       /\ \A t \in Tasks, d \in Deployments :
            /\ task[t].op = "idle" /\ task'[t].op = "call_tool" /\ task'[t].d = d
            /\ \E e \in Deployments \ {d} : Crashed(e)
            /\ proc[_running_servers[d]].status = "running"
            /\ lock[_running_servers[d]] = NewLock
            => /\ task'[t].pc = "reading"
               /\ proc'[_running_servers[d]].stdin
                    = Append(proc[_running_servers[d]].stdin, task'[t].id)]_vars

C25_Witness ==
    /\ http[HttpTask].pc = "done"
    /\ http[HttpTask].body.method = "tools/call"
    /\ http[HttpTask].resp.kind = "jsonrpc_error"
    /\ http[HttpTask].resp.msg = <<"broken_pipe">>
    /\ Crashed("d1")
    /\ task[BridgeTask].op = "call_tool"
    /\ task[BridgeTask].pc = "done"
    /\ task[BridgeTask].res.kind = "response"

\* the presented credential is plain ASCII
AsciiCredential(r) ==
    \A i \in 1..Len(AccessToken(r.token, r.authorization)) :
        AccessToken(r.token, r.authorization)[i] \notin NonAscii

\* the response is the gateway's own, not the body a machine sent
OwnResponse(t) == http[t].resp.kind \notin {"upstream", "upstream_stream"}

\* C26: whatever the gateway refuses or fails at, for a credential in ASCII,
\* it answers with a JSON-RPC error object that has a code and a message; a
\* body that is not valid JSON gets 400 with -32700.
C26_ErrorsAreJsonRpc ==
    \A t \in Tasks :
        (http[t].pc = "done" /\ AsciiCredential(http[t].req) /\ OwnResponse(t))
        => /\ http[t].resp.status >= 400
                => /\ http[t].resp.kind = "jsonrpc_error"
                   /\ http[t].resp.code # 0
                   /\ http[t].resp.msg # <<>>
           /\ http[t].body.shape = "invalid_json"
                => http[t].resp.status = 400 /\ http[t].resp.code = -32700
           /\ http[t].body.shape = "not_object"
                => http[t].resp.kind = "jsonrpc_error"

\* a call of another task is blocked on a child other than p: it waits for
\* that child's answer or for that child's lock
BlockedElsewhere(t, p) ==
    \E u \in Tasks \ {t} :
        /\ task[u].op = "call_tool"
        /\ task[u].pc \in {"reading", "waiting"}
        /\ task[u].p # p

C28_AnswerIsOwn ==
    \A t \in Tasks :
        (task[t].op = "call_tool" /\ task[t].pc = "done")
        => task[t].res.id = task[t].id

\* C30: the session id in the gateway's answer to an initialize request is a
\* key of the session registry, and that session belongs to the deployment
\* the request was addressed to.
C30_ConfirmedSessionsAreOwn ==
    \A t \in Tasks :
        (/\ AnsweredInitialize(t)
         /\ ~Remote(http[t].req.deployment_id)
         /\ http[t].resp.kind = "jsonrpc_result")
        => /\ http[t].resp.sid \in Sessions
           /\ active_sessions[http[t].resp.sid].deployment_id = http[t].req.deployment_id
====
